---- MODULE Spec2Model ----
(***************************************************************************)
(* Model of parser.py of AndroidPermissions: the recursive scanner         *)
(* son_of_a_class over a javalang syntax tree, the signature builder       *)
(* get_name_and_qualifier and the two annotation extractors                *)
(* parse_requirements and parse_deprecation.                               *)
(*                                                                         *)
(* Representation.  Python str values are TLA+ strings, except the raw     *)
(* documentation text, which is a sequence of one-character strings so     *)
(* that find / slice / split / replace / strip can be computed; "".join    *)
(* turns the cleaned pieces back into a string.  A Python list object is   *)
(* a cell of `heap`, so that aliasing of the qualifier list between a      *)
(* call and its caller (append / pop in place, rebinding on a package) is  *)
(* explicit.  The recursion of son_of_a_class is the sequence `stack` of   *)
(* frames, innermost last.                                                 *)
(***************************************************************************)
EXTENDS Integers, Sequences, FiniteSets, TLC

VARIABLES unit, heap, stack, status, result, stdout

vars == <<unit, heap, stack, status, result, stdout>>

---------------------------------------------------------------------------
(* Python helpers                                                          *)

RECURSIVE Join(_, _)
\* sep.join(parts) for a sequence of strings
Join(parts, sep) ==
    IF Len(parts) = 0 THEN ""
    ELSE IF Len(parts) = 1 THEN parts[1]
    ELSE parts[1] \o sep \o Join(Tail(parts), sep)

RECURSIVE Flatten(_)
\* "".join(chars): a sequence of one-character strings as one string
Flatten(chars) ==
    IF Len(chars) = 0 THEN "" ELSE chars[1] \o Flatten(Tail(chars))

\* Python values of the two SDK fields: the int default or a str
PyInt(n) == [py |-> "int", n |-> n, s |-> ""]
PyStr(s) == [py |-> "str", n |-> 0, s |-> s]

---------------------------------------------------------------------------
(* javalang tree nodes, as far as parser.py reads them                     *)

NoDoc == [present |-> FALSE, text |-> <<>>]
Doc(text) == [present |-> TRUE, text |-> text]
NoType == [present |-> FALSE, name |-> "", arguments |-> <<>>]
Type(name, arguments) == [present |-> TRUE, name |-> name, arguments |-> arguments]

MkNode(kind, name, children) ==
    [kind |-> kind, name |-> name, children |-> children,
     annotations |-> <<>>, parameters |-> <<>>, return_type |-> NoType,
     declarators |-> <<>>, type |-> "", documentation |-> NoDoc, member |-> ""]

PackageDeclaration(name) == MkNode("PackageDeclaration", name, <<MkNode("str", name, <<>>)>>)
ClassDeclaration(name, children) == MkNode("ClassDeclaration", name, children)
MethodDeclaration(name, annotations, parameters, return_type, children) ==
    [MkNode("MethodDeclaration", name, children) EXCEPT
        !.annotations = annotations, !.parameters = parameters,
        !.return_type = return_type]
FieldDeclaration(annotations, type, declarators, documentation) ==
    [MkNode("FieldDeclaration", "", <<MkNode("str", type, <<>>)>>) EXCEPT
        !.annotations = annotations, !.type = type,
        !.declarators = declarators, !.documentation = documentation]
MethodInvocation(member) ==
    [MkNode("MethodInvocation", "", <<MkNode("str", member, <<>>)>>) EXCEPT !.member = member]
List(items) == MkNode("list", "", items)
Other(children) == MkNode("Node", "", children)

None == MkNode("None", "", <<>>)

\* hasattr(child, "children"): javalang Nodes have it, list / str / None do not
HasChildren(child) == child.kind \notin {"list", "str", "None"}

\* annotation element values
MkValue(cls) == [cls |-> cls, qualifier |-> "", member |-> "", values |-> <<>>, name |-> ""]
MemberReference(qualifier, member) ==
    [MkValue("MemberReference") EXCEPT !.qualifier = qualifier, !.member = member]
Literal == MkValue("Literal")
ElementArrayValue(values) == [MkValue("ElementArrayValue") EXCEPT !.values = values]
NestedAnnotation(name) == [MkValue("Annotation") EXCEPT !.name = name]
ElementValuePair(name, value) == [name |-> name, value |-> value]

\* annotation.element: None, a list of ElementValuePair, or one value
NoElement == [shape |-> "none", pairs |-> <<>>, single |-> MkValue("None")]
ListElement(pairs) == [shape |-> "list", pairs |-> pairs, single |-> MkValue("None")]
SingleElement(v) == [shape |-> "single", pairs |-> <<>>, single |-> v]
Annotation(name, element) == [name |-> name, element |-> element]

\* annotation.element is truthy: not None and not an empty list
ElementTruthy(e) == e.shape = "single" \/ (e.shape = "list" /\ Len(e.pairs) > 0)

\* v.values exists (ElementArrayValue only)
HasValues(v) == v.cls = "ElementArrayValue"
\* v.name exists (Annotation; MemberReference, Literal, ElementArrayValue lack it)
HasName(v) == v.cls = "Annotation"
\* v.qualifier + "." + v.member evaluates: v has a str qualifier and a member
HasQualifiedMember(v) == v.cls = "MemberReference"
QualifiedMember(v) == v.qualifier \o "." \o v.member

---------------------------------------------------------------------------
(* Output records                                                          *)

RequiresPermission(name, qualifier, isMethod) ==
    [cls |-> "RequiresPermission", name |-> name, qualifier |-> qualifier,
     isMethod |-> isMethod, permissions |-> <<>>, needsAllOf |-> FALSE]

UnsupportedAppUsage(name, qualifier, isMethod) ==
    [cls |-> "UnsupportedAppUsage", name |-> name, qualifier |-> qualifier,
     isMethod |-> isMethod, minTargetSdk |-> PyInt(0), maxTargetSdk |-> PyInt(0),
     deprecationNote |-> ""]

---------------------------------------------------------------------------
(* get_name_and_qualifier.  bp is what the debugger entered by             *)
(* breakpoint() does: "continue" resumes the program, "quit" raises        *)
(* BdbQuit.                                                                *)

Breakpoint == {"continue", "quit"}

ParameterText(p) == p.type \o " " \o p.name

\* variant: no "void" for a method without return type
ReturnTypeText_NoVoid(rt) ==
    IF Len(rt.arguments) > 0
    THEN rt.name \o "<" \o Join(rt.arguments, ", ") \o ">"
    ELSE rt.name

ReturnTypeText(rt) ==
    IF ~rt.present THEN "void"
    ELSE LET full == IF Len(rt.arguments) > 0
                     THEN rt.name \o "<" \o Join(rt.arguments, ", ") \o ">"
                     ELSE rt.name
         IN IF full = "" THEN "void" ELSE full

MethodQualifier(element, qualifier) ==
    Join(qualifier, ".") \o "("
        \o Join([k \in 1..Len(element.parameters) |-> ParameterText(element.parameters[k])], ", ")
        \o ") -> " \o ReturnTypeText(element.return_type)

FieldQualifier(element, qualifier) ==
    Join(Append(qualifier, element.declarators[1]), ".") \o " -> " \o element.type

UnsupportedShape(element) ==
    Len(element.declarators) = 0 \/ Len(element.declarators) > 1

get_name_and_qualifier(element, qualifier, bp) ==
    IF element.kind = "MethodDeclaration"
    THEN [status |-> "ok", name |-> element.name,
          qualifier |-> MethodQualifier(element, qualifier)]
    ELSE IF UnsupportedShape(element)
    THEN [status |-> IF bp = "quit" THEN "quit" ELSE "ok", name |-> "", qualifier |-> ""]
    ELSE [status |-> "ok", name |-> element.declarators[1],
          qualifier |-> FieldQualifier(element, qualifier)]

---------------------------------------------------------------------------
(* parse_requirements                                                      *)

RECURSIVE AppendValues(_, _)
\* for val in elm.value.values: permissions.append(val.qualifier + "." + val.member)
AppendValues(values, permissions) ==
    IF Len(values) = 0 THEN [status |-> "ok", permissions |-> permissions]
    ELSE IF ~HasQualifiedMember(values[1])
    THEN [status |-> "raise", permissions |-> permissions]
    ELSE AppendValues(Tail(values), Append(permissions, QualifiedMember(values[1])))

\* variant: allOf once seen stays set
NeedsAllOf_Sticky(previous, elm) == previous \/ elm.name = "allOf"

NeedsAllOf(previous, elm) == elm.name = "allOf"

RECURSIVE RequirementPairs(_, _)
\* for elm in annotation.element: ...
RequirementPairs(pairs, target) ==
    IF Len(pairs) = 0 THEN [status |-> "ok", rec |-> target]
    ELSE LET elm == pairs[1]
             t1 == [target EXCEPT !.needsAllOf = NeedsAllOf(target.needsAllOf, elm)]
         IN IF ~HasValues(elm.value) THEN [status |-> "raise", rec |-> t1]
            ELSE LET r == AppendValues(elm.value.values, t1.permissions)
                 IN IF r.status # "ok" THEN [status |-> r.status, rec |-> t1]
                    ELSE RequirementPairs(Tail(pairs),
                                          [t1 EXCEPT !.permissions = r.permissions])

\* variant: a single value is not appended
RequirementSingle_Dropped(v, target) ==
    IF ~HasQualifiedMember(v) THEN [status |-> "raise", rec |-> target]
    ELSE [status |-> "ok", rec |-> target]

RequirementSingle(v, target) ==
    IF ~HasQualifiedMember(v) THEN [status |-> "raise", rec |-> target]
    ELSE [status |-> "ok",
          rec |-> [target EXCEPT !.permissions = Append(@, QualifiedMember(v))]]

parse_requirements(element, annotation, qualifier, bp) ==
    LET nq == get_name_and_qualifier(element, qualifier, bp)
        target == RequiresPermission(nq.name, nq.qualifier,
                                     element.kind = "MethodDeclaration")
    IN IF nq.status # "ok" THEN [status |-> nq.status, rec |-> target]
       ELSE IF ~ElementTruthy(annotation.element) THEN [status |-> "ok", rec |-> target]
       ELSE IF annotation.element.shape = "list"
       THEN RequirementPairs(annotation.element.pairs, target)
       ELSE RequirementSingle(annotation.element.single, target)

---------------------------------------------------------------------------
(* parse_deprecation                                                       *)

SdkKeys == {"minTargetSdk", "maxTargetSdk"}

\* variant: the first element named with a key wins
SetSdk_FirstWins(target, key, text) ==
    IF key = "minTargetSdk"
    THEN (IF target.minTargetSdk.py = "str" THEN target
          ELSE [target EXCEPT !.minTargetSdk = PyStr(text)])
    ELSE (IF target.maxTargetSdk.py = "str" THEN target
          ELSE [target EXCEPT !.maxTargetSdk = PyStr(text)])

\* setattr(target, key, text)
SetSdk(target, key, text) ==
    IF key = "minTargetSdk" THEN [target EXCEPT !.minTargetSdk = PyStr(text)]
    ELSE [target EXCEPT !.maxTargetSdk = PyStr(text)]

RECURSIVE DeprecationPairs(_, _)
\* for elm in annotation.element: if elm.name is a key: setattr(...)
DeprecationPairs(pairs, target) ==
    IF Len(pairs) = 0 THEN [status |-> "ok", rec |-> target]
    ELSE LET elm == pairs[1]
         IN IF elm.name \notin SdkKeys THEN DeprecationPairs(Tail(pairs), target)
            ELSE IF ~HasQualifiedMember(elm.value) THEN [status |-> "raise", rec |-> target]
            ELSE DeprecationPairs(Tail(pairs),
                                  SetSdk(target, elm.name, QualifiedMember(elm.value)))

\* the branch for an element that is not a list: it reads element.name and,
\* for a key, element.value, which no single javalang value has
DeprecationSingle(v, target) ==
    IF ~HasName(v) THEN [status |-> "raise", rec |-> target]
    ELSE IF v.name \in SdkKeys THEN [status |-> "raise", rec |-> target]
    ELSE [status |-> "ok", rec |-> target]

Tag == <<"@", "d", "e", "p", "r", "e", "c", "a", "t", "e", "d">>

\* text.find(Tag): the 0-based index of the first occurrence, -1 when absent
Find(text) ==
    LET hits == {k \in 0..(Len(text) - Len(Tag)) :
                    SubSeq(text, k + 1, k + Len(Tag)) = Tag}
    IN IF hits = {} THEN -1 ELSE CHOOSE k \in hits : \A j \in hits : k <= j

RECURSIVE Split(_)
\* text.split("\n")
Split(text) ==
    LET nl == {k \in 1..Len(text) : text[k] = "\n"}
    IN IF nl = {} THEN <<text>>
       ELSE LET k == CHOOSE a \in nl : \A b \in nl : a <= b
            IN <<SubSeq(text, 1, k - 1)>> \o Split(SubSeq(text, k + 1, Len(text)))

\* line.replace(ch, "")
Replace(line, ch) == SelectSeq(line, LAMBDA c : c # ch)

Whitespace == {" ", "\t", "\n", "\r", "\f"}

\* line.strip()
Strip(line) ==
    LET keep == {k \in 1..Len(line) : line[k] \notin Whitespace}
    IN IF keep = {} THEN <<>>
       ELSE SubSeq(line, CHOOSE a \in keep : \A b \in keep : a <= b,
                         CHOOSE a \in keep : \A b \in keep : a >= b)

CleanLine(line) == Strip(Replace(Replace(line, "*"), "/"))

RECURSIVE JoinLines(_)
JoinLines(lines) ==
    IF Len(lines) = 0 THEN "" ELSE Flatten(CleanLine(lines[1])) \o JoinLines(Tail(lines))

\* "".join(x.replace("*", "").replace("/", "").strip() for x in text[from:].split("\n"))
deprecation_doc_text(text, from) == JoinLines(Split(SubSeq(text, from + 1, Len(text))))

\* the test on the index that text.find returned
TagFound(deprecation_in_doc) == deprecation_in_doc > 0

\* lines 124-129: the documentation part of parse_deprecation
MineDocumentation(documentation, target) ==
    IF documentation.present /\ Len(documentation.text) > 0
    THEN LET deprecation_in_doc == Find(documentation.text)
         IN IF TagFound(deprecation_in_doc)
            THEN [target EXCEPT !.deprecationNote =
                        deprecation_doc_text(documentation.text, deprecation_in_doc)]
            ELSE target
    ELSE target

parse_deprecation(element, annotation, qualifier, bp) ==
    LET nq == get_name_and_qualifier(element, qualifier, bp)
        target == UnsupportedAppUsage(nq.name, nq.qualifier,
                                      element.kind = "MethodDeclaration")
        r == IF ~ElementTruthy(annotation.element) THEN [status |-> "ok", rec |-> target]
             ELSE IF annotation.element.shape = "list"
             THEN DeprecationPairs(annotation.element.pairs, target)
             ELSE DeprecationSingle(annotation.element.single, target)
    IN IF nq.status # "ok" THEN [status |-> nq.status, rec |-> target]
       ELSE IF r.status # "ok" THEN r
       ELSE [status |-> "ok", rec |-> MineDocumentation(element.documentation, r.rec)]

---------------------------------------------------------------------------
(* parse_element_annotations                                               *)

ParseAnnotation(element, annotation, qualifier, bp) ==
    IF annotation.name = "UnsupportedAppUsage"
    THEN parse_deprecation(element, annotation, qualifier, bp)
    ELSE parse_requirements(element, annotation, qualifier, bp)

IsMarker(annotation) == annotation.name \in {"UnsupportedAppUsage", "RequiresPermission"}

RECURSIVE AnnotationLoop(_, _, _, _, _)
AnnotationLoop(element, annotations, qualifier, bp, partial) ==
    IF Len(annotations) = 0 THEN [status |-> "ok", partial |-> partial]
    ELSE IF ~IsMarker(annotations[1])
    THEN AnnotationLoop(element, Tail(annotations), qualifier, bp, partial)
    ELSE LET r == ParseAnnotation(element, annotations[1], qualifier, bp)
         IN IF r.status # "ok" THEN [status |-> r.status, partial |-> partial]
            ELSE AnnotationLoop(element, Tail(annotations), qualifier, bp,
                                Append(partial, r.rec))

parse_element_annotations(element, qualifier, bp) ==
    AnnotationLoop(element, element.annotations, qualifier, bp, <<>>)

\* parse_method_invocation: the names it recognises
EnforcingNames == {"enforceCallingOrSelfPermission"}

---------------------------------------------------------------------------
(* son_of_a_class, one frame of `stack` per active call; analyze           *)

\* a call son_of_a_class(children, qualifier); qualifier is a cell of heap.
\* arg and entryLen keep the list passed in and its length at the call.
Frame(children, qualifier, entryLen) ==
    [children |-> children, i |-> 1, qualifier |-> qualifier, partial |-> <<>>,
     phase |-> "branch", arg |-> qualifier, entryLen |-> entryLen]

Top == stack[Len(stack)]
Child == Top.children[Top.i]
Running == status = "running" /\ Len(stack) > 0
AtBranch(kinds) ==
    /\ Running
    /\ Top.phase = "branch"
    /\ Top.i <= Len(Top.children)
    /\ Child.kind \in kinds

SetTop(f) == [stack EXCEPT ![Len(stack)] = f]
Call(children, qualifier, phase) ==
    Append(SetTop([Top EXCEPT !.phase = phase]),
           Frame(children, qualifier, Len(heap[qualifier])))

\* qualifier.pop() after the children of a class or method (lines 184-185)
PopsQualifier(child) == child.kind \in {"ClassDeclaration", "MethodDeclaration"}

\* lines 161-162: qualifier = [child.name] binds the local name to a new list
VisitPackage ==
    /\ AtBranch({"PackageDeclaration"})
    /\ heap' = Append(heap, <<Child.name>>)
    /\ stack' = SetTop([Top EXCEPT !.qualifier = Len(heap) + 1, !.phase = "children"])
    /\ UNCHANGED <<unit, status, result, stdout>>

\* lines 164-165
VisitClass ==
    /\ AtBranch({"ClassDeclaration"})
    /\ heap' = [heap EXCEPT ![Top.qualifier] = Append(@, Child.name)]
    /\ stack' = SetTop([Top EXCEPT !.phase = "children"])
    /\ UNCHANGED <<unit, status, result, stdout>>

\* partial += parse_element_annotations(child, qualifier), or the exception
Extract(child, qualifier, bp) ==
    LET r == parse_element_annotations(child, qualifier, bp)
    IN IF r.status = "ok"
       THEN /\ stack' = SetTop([Top EXCEPT !.partial = @ \o r.partial,
                                           !.phase = "children"])
            /\ status' = status
       ELSE /\ stack' = stack
            /\ status' = r.status

\* lines 167-169
VisitMethod ==
    /\ AtBranch({"MethodDeclaration"})
    /\ heap' = [heap EXCEPT ![Top.qualifier] = Append(@, Child.name)]
    /\ \E bp \in Breakpoint : Extract(Child, heap'[Top.qualifier], bp)
    /\ UNCHANGED <<unit, result, stdout>>

\* lines 171-172
VisitField ==
    /\ AtBranch({"FieldDeclaration"})
    /\ \E bp \in Breakpoint : Extract(Child, heap[Top.qualifier], bp)
    /\ UNCHANGED <<unit, heap, result, stdout>>

\* lines 174-177 with parse_method_invocation, which returns None
VisitInvocation ==
    /\ AtBranch({"MethodInvocation"})
    /\ IF Child.member \in EnforcingNames
       THEN /\ stdout' = Append(stdout, "ENFORCING")
            /\ \E bp \in Breakpoint :
                 IF bp = "quit"
                 THEN status' = "quit" /\ stack' = stack
                 ELSE status' = status /\ stack' = SetTop([Top EXCEPT !.phase = "children"])
       ELSE /\ stdout' = stdout
            /\ status' = status
            /\ stack' = SetTop([Top EXCEPT !.phase = "children"])
    /\ UNCHANGED <<unit, heap, result>>

\* lines 179-180: the call; its result is added when it returns
VisitList ==
    /\ AtBranch({"list"})
    /\ stack' = Call(Child.children, Top.qualifier, "inList")
    /\ UNCHANGED <<unit, heap, status, result, stdout>>

\* no branch of lines 161-180 matches
VisitOther ==
    /\ AtBranch({"Node", "str", "None"})
    /\ stack' = SetTop([Top EXCEPT !.phase = "children"])
    /\ UNCHANGED <<unit, heap, status, result, stdout>>

EntersChildren(child) == HasChildren(child) /\ Len(child.children) > 0

\* lines 182-183: the call
DescendChildren ==
    /\ Running
    /\ Top.phase = "children"
    /\ EntersChildren(Child)
    /\ stack' = Call(Child.children, Top.qualifier, "inChildren")
    /\ UNCHANGED <<unit, heap, status, result, stdout>>

\* line 182 false: next child
SkipChildren ==
    /\ Running
    /\ Top.phase = "children"
    /\ ~EntersChildren(Child)
    /\ stack' = SetTop([Top EXCEPT !.i = @ + 1, !.phase = "branch"])
    /\ UNCHANGED <<unit, heap, status, result, stdout>>

Finished(f) == f.phase = "branch" /\ f.i > Len(f.children)

\* variant: the returned records are put before the caller's own
Resume_Prepend(caller, returned) ==
    IF caller.phase = "inList"
    THEN [caller EXCEPT !.partial = returned \o @, !.phase = "children"]
    ELSE [caller EXCEPT !.partial = returned \o @, !.i = @ + 1, !.phase = "branch"]

\* what the caller does with the list a call returned (lines 180, 183-185)
Resume(caller, returned) ==
    IF caller.phase = "inList"
    THEN [caller EXCEPT !.partial = @ \o returned, !.phase = "children"]
    ELSE [caller EXCEPT !.partial = @ \o returned, !.i = @ + 1, !.phase = "branch"]

\* line 187 of a nested call, then the caller's lines 180 or 183-185
Return ==
    /\ Running
    /\ Len(stack) > 1
    /\ Finished(Top)
    /\ LET caller == stack[Len(stack) - 1]
           child == caller.children[caller.i]
       IN /\ stack' = [SubSeq(stack, 1, Len(stack) - 1) EXCEPT
                          ![Len(stack) - 1] = Resume(caller, Top.partial)]
          /\ heap' = IF caller.phase = "inChildren" /\ PopsQualifier(child)
                     THEN [heap EXCEPT ![caller.qualifier] = SubSeq(@, 1, Len(@) - 1)]
                     ELSE heap
    /\ UNCHANGED <<unit, status, result, stdout>>

\* line 187 of the outermost call: analyze returns the list (lines 200-202)
Finish ==
    /\ Running
    /\ Len(stack) = 1
    /\ Finished(Top)
    /\ status' = "done"
    /\ result' = Top.partial
    /\ UNCHANGED <<unit, heap, stack, stdout>>

---------------------------------------------------------------------------
(* Inputs: the trees javalang hands to son_of_a_class                      *)

MaxNest == 1
MaxPairs == 2
MaxValues == 2
MaxPad == 1

SeqsUpTo(S, n) == UNION {[1..k -> S] : k \in 0..n}

CAMERA == MemberReference("Manifest.permission", "CAMERA")
LOCATION == MemberReference("Manifest.permission", "ACCESS_FINE_LOCATION")
SDK_P == MemberReference("Build.VERSION_CODES", "P")
SDK_O == MemberReference("Build.VERSION_CODES", "O")

Permission(element) == Annotation("RequiresPermission", element)
Usage(element) == Annotation("UnsupportedAppUsage", element)

\* tree.parse().children of a CompilationUnit: package, imports, types
CompilationUnit(package, types) == <<package, List(<<>>), List(types)>>

takePhoto(annotations) ==
    MethodDeclaration("takePhoto", annotations, <<>>, NoType, <<List(<<>>)>>)
MAX_SIZE(annotations, documentation) ==
    FieldDeclaration(annotations, "int", <<"MAX_SIZE">>, documentation)
Camera(member) ==
    CompilationUnit(PackageDeclaration("com.app"),
                    <<ClassDeclaration("Camera", <<List(<<member>>)>>)>>)

\* payloads of the permission marker
\* arrays of up to MaxValues constants, alternating from either constant
Alternate(first, k) ==
    [j \in 1..k |-> IF (j % 2 = 1) = first THEN CAMERA ELSE LOCATION]
PermissionArrays ==
    {ElementArrayValue(Alternate(first, k)) : first \in BOOLEAN, k \in 0..MaxValues}
PermissionPairs == {ElementValuePair(n, a) : n \in {"allOf", "anyOf"}, a \in PermissionArrays}
WellFormedPermission ==
    {NoElement, SingleElement(CAMERA)}
        \cup {ListElement(ps) : ps \in SeqsUpTo(PermissionPairs, MaxPairs) \ {<<>>}}
MalformedPermission ==
    {SingleElement(Literal), SingleElement(ElementArrayValue(<<CAMERA>>)),
     ListElement(<<ElementValuePair("allOf", CAMERA)>>),
     ListElement(<<ElementValuePair("anyOf", Literal)>>),
     ListElement(<<ElementValuePair("anyOf", ElementArrayValue(<<CAMERA, Literal>>))>>)}

\* payloads of the usage marker
UsagePairs ==
    {ElementValuePair(n, v) : n \in SdkKeys \cup {"trackingBug"}, v \in {SDK_P, SDK_O}}
        \cup {ElementValuePair("trackingBug", Literal)}
WellFormedUsage ==
    {NoElement} \cup {ListElement(ps) : ps \in SeqsUpTo(UsagePairs, MaxPairs) \ {<<>>}}
MalformedUsage ==
    {SingleElement(SDK_P), SingleElement(Literal), SingleElement(NestedAnnotation("Deprecated")),
     ListElement(<<ElementValuePair("maxTargetSdk", Literal)>>)}

\* documentation texts
PadChars == {"/", "*", " ", "\n", "x"}
Pads == SeqsUpTo(PadChars, MaxPad)
TwoTags == Tag \o <<" ", "a", "\n", " ", "*", " ">> \o Tag \o <<" ", "b">>
DocExample ==
    <<"/", "*", "*", "\n", " ", "*", " ">> \o Tag
        \o <<" ", "u", "s", "e", " ", "g", "e", "t", "M", "a", "x", "S", "i", "z", "e",
             "(", ")", " ", "i", "n", "s", "t", "e", "a", "d", "\n", " ", "*", "/">>
DocTexts ==
    {pre \o mid \o post : pre \in Pads, mid \in {<<>>, Tag, TwoTags}, post \in Pads}
        \cup {DocExample}
Documentations == {NoDoc} \cup {Doc(t) : t \in DocTexts}

PayloadUnits ==
    {Camera(takePhoto(<<Permission(e)>>)) : e \in WellFormedPermission \cup MalformedPermission}
        \cup {Camera(MAX_SIZE(<<Usage(e)>>, NoDoc)) : e \in WellFormedUsage \cup MalformedUsage}
DocUnits ==
    {Camera(MAX_SIZE(<<Usage(ListElement(<<ElementValuePair("maxTargetSdk", SDK_P)>>))>>, d)) :
        d \in Documentations}

\* declarations and calls nested in classes and methods
fieldA ==
    FieldDeclaration(<<Usage(NoElement), Permission(SingleElement(CAMERA))>>,
                     "int", <<"a">>, NoDoc)
fieldTwo ==
    FieldDeclaration(<<Permission(SingleElement(CAMERA))>>, "int", <<"a", "b">>, NoDoc)
fieldZero == FieldDeclaration(<<Usage(NoElement)>>, "int", <<>>, NoDoc)
enforcing == MethodInvocation("enforceCallingOrSelfPermission")
\* a statement node holding a call of an unrecognised name
checking == Other(<<MethodInvocation("checkPermission")>>)
emptyClass == ClassDeclaration("Empty", <<>>)
emptyMethod ==
    MethodDeclaration("stub", <<Permission(SingleElement(LOCATION))>>, <<>>, NoType, <<>>)
Leaves == {fieldA, fieldTwo, fieldZero, enforcing, checking, emptyClass, emptyMethod}

Siblings == {fieldA, enforcing, emptyClass}

ClassNames == <<"Inner1", "Inner2", "Inner3">>
MethodNames == <<"run1", "run2", "run3">>
Wrappers(d, body) ==
    {ClassDeclaration(ClassNames[d], <<List(body)>>),
     MethodDeclaration(MethodNames[d], <<Permission(SingleElement(CAMERA))>>,
                       <<[type |-> "String", name |-> "id"]>>,
                       Type("List", <<"String">>), <<List(body)>>)}

RECURSIVE Bodies(_)
Bodies(d) ==
    IF d = 0 THEN {<<x>> : x \in Leaves}
    ELSE Bodies(d - 1)
            \cup UNION {{<<x, w>>, <<w, x>>} :
                          x \in Siblings, w \in UNION {Wrappers(d, b) : b \in Bodies(d - 1)}}

StructureUnits ==
    {CompilationUnit(None, <<ClassDeclaration("A", <<List(b)>>)>>) : b \in Bodies(MaxNest)}

Units == PayloadUnits \cup DocUnits \cup StructureUnits

---------------------------------------------------------------------------

\* analyze at line 200: the text has passed the substring test of lines
\* 195-196 and javalang has parsed it; son_of_a_class is called with the
\* children of the tree and a new empty list
Init ==
    /\ unit \in Units
    /\ heap = << <<>> >>
    /\ stack = <<Frame(unit, 1, 0)>>
    /\ status = "running"
    /\ result = <<>>
    /\ stdout = <<>>

Next ==
    \/ VisitPackage
    \/ VisitClass
    \/ VisitMethod
    \/ VisitField
    \/ VisitInvocation
    \/ VisitList
    \/ VisitOther
    \/ DescendChildren
    \/ SkipChildren
    \/ Return
    \/ Finish

Spec == Init /\ [][Next]_vars

---------------------------------------------------------------------------
(* The declarations of a unit in the order of the depth-first pre-order    *)
(* traversal of the child lists: one entry per marker annotation of each   *)
(* method or field, a declaration before what is nested in it and before   *)
(* its later siblings.                                                     *)

IsDeclaration(c) == c.kind \in {"MethodDeclaration", "FieldDeclaration"}

Markers(c) ==
    LET ms == SelectSeq(c.annotations, IsMarker)
    IN [k \in 1..Len(ms) |-> [declaration |-> c, annotation |-> ms[k]]]

RECURSIVE Encountered(_)
Encountered(children) ==
    IF Len(children) = 0 THEN <<>>
    ELSE LET c == children[1]
         IN (IF IsDeclaration(c) THEN Markers(c) ELSE <<>>)
                \o Encountered(c.children)
                \o Encountered(Tail(children))

\* the name the record of a declaration carries
DeclaredName(c) ==
    IF c.kind = "MethodDeclaration" THEN c.name
    ELSE IF Len(c.declarators) = 1 THEN c.declarators[1] ELSE ""

Done == status = "done"

---------------------------------------------------------------------------
(* Claims                                                                  *)

CameraUnit == Camera(takePhoto(<<Permission(SingleElement(CAMERA))>>))

CameraRecord(signature) ==
    [cls |-> "RequiresPermission", name |-> "takePhoto", qualifier |-> signature,
     isMethod |-> TRUE, permissions |-> <<"Manifest.permission.CAMERA">>,
     needsAllOf |-> FALSE]

\* C2 as stated: scanning CameraUnit yields exactly one record, with
\* permissions [Manifest.permission.CAMERA], needsAllOf false and the
\* signature "com.app.Camera() -> void".
C2_SignatureAsStated ==
    (Done /\ unit = CameraUnit) => result = <<CameraRecord("com.app.Camera() -> void")>>

\* C2 amended: the same, with the signature "com.app.Camera.takePhoto() -> void":
\* the qualifier path holds the method's own name when the record is built.
C2_SignatureWithMethodName ==
    (Done /\ unit = CameraUnit)
        => result = <<CameraRecord("com.app.Camera.takePhoto() -> void")>>

C2_Witness == Done /\ unit = CameraUnit /\ Len(result) = 1

\* the k-th entry of the traversal, to which the k-th record belongs
Entries == Encountered(unit)
IsPermissionEntry(e) == e.annotation.name = "RequiresPermission"
IsUsageEntry(e) == e.annotation.name = "UnsupportedAppUsage"

\* a sequence of named elements, each holding an array of qualified constants
NamedArrays(element) ==
    /\ element.shape = "list"
    /\ Len(element.pairs) > 0
    /\ \A i \in 1..Len(element.pairs) :
          /\ HasValues(element.pairs[i].value)
          /\ \A j \in 1..Len(element.pairs[i].value.values) :
                HasQualifiedMember(element.pairs[i].value.values[j])

RECURSIVE ListedConstants(_)
\* "<namespace>.<member>" of every value of every element, in listed order
ListedConstants(pairs) ==
    IF Len(pairs) = 0 THEN <<>>
    ELSE [j \in 1..Len(pairs[1].value.values) |->
              pairs[1].value.values[j].qualifier \o "." \o pairs[1].value.values[j].member]
            \o ListedConstants(Tail(pairs))

LastIsAllOf(pairs) == pairs[Len(pairs)].name = "allOf"

\* C3: for a permission marker whose payload is a sequence of named elements,
\* the record's permissions are the constants of every element in element
\* order and listed order, and needsAllOf is whether the last element is
\* named allOf; such a payload raises nothing.
C3_AllOfGrouping ==
    /\ Done =>
          \A k \in 1..Len(Entries) :
             (IsPermissionEntry(Entries[k]) /\ NamedArrays(Entries[k].annotation.element))
                => /\ k <= Len(result)
                   /\ result[k].cls = "RequiresPermission"
                   /\ result[k].permissions
                         = ListedConstants(Entries[k].annotation.element.pairs)
                   /\ result[k].needsAllOf
                         = LastIsAllOf(Entries[k].annotation.element.pairs)
    /\ (Len(Entries) = 1 /\ IsPermissionEntry(Entries[1])
            /\ NamedArrays(Entries[1].annotation.element))
          => status \in {"running", "done"}

AllOfTwo == ListElement(<<ElementValuePair("allOf", ElementArrayValue(<<CAMERA, LOCATION>>))>>)

C3_Witness ==
    /\ Done
    /\ unit = Camera(takePhoto(<<Permission(AllOfTwo)>>))
    /\ Len(result) = 1
    /\ result[1].needsAllOf
    /\ result[1].permissions
          = <<"Manifest.permission.CAMERA", "Manifest.permission.ACCESS_FINE_LOCATION">>

\* the value of an SDK field: the last element named key, or the default
ExpectedSdk(element, key, default) ==
    LET named == IF element.shape = "list"
                 THEN {i \in 1..Len(element.pairs) : element.pairs[i].name = key}
                 ELSE {}
    IN IF named = {} THEN default
       ELSE LET last == CHOOSE i \in named : \A j \in named : j <= i
            IN PyStr(element.pairs[last].value.qualifier \o "."
                        \o element.pairs[last].value.member)

IsExample(e) ==
    /\ e.declaration.kind = "FieldDeclaration"
    /\ e.declaration.declarators = <<"MAX_SIZE">>
    /\ e.declaration.type = "int"
    /\ e.declaration.documentation = Doc(DocExample)
    /\ e.annotation = Usage(ListElement(<<ElementValuePair("maxTargetSdk", SDK_P)>>))

UsageBounds(default) ==
    Done =>
       \A k \in 1..Len(Entries) :
          IsUsageEntry(Entries[k])
             => /\ k <= Len(result)
                /\ result[k].cls = "UnsupportedAppUsage"
                /\ result[k].minTargetSdk
                      = ExpectedSdk(Entries[k].annotation.element, "minTargetSdk", default)
                /\ result[k].maxTargetSdk
                      = ExpectedSdk(Entries[k].annotation.element, "maxTargetSdk", default)
                /\ IsExample(Entries[k])
                      => /\ result[k].maxTargetSdk = PyStr("Build.VERSION_CODES.P")
                         /\ result[k].minTargetSdk = default
                         /\ result[k].deprecationNote
                               = "@deprecated use getMaxSize() instead"

C5_NoRecordForUnsupportedShape ==
    /\ \A k \in 1..Len(stack) : \A j \in 1..Len(stack[k].partial) :
          ~(stack[k].partial[j].name = "" /\ stack[k].partial[j].qualifier = "")
    /\ Done =>
          \A k \in 1..Len(Entries) :
             UnsupportedShape(Entries[k].declaration)
                /\ Entries[k].declaration.kind = "FieldDeclaration"
                => Len(result) < Len(Entries)

\* C6: the returned list holds the records in the order of the depth-first
\* pre-order traversal, each marker annotation of each declaration once.
C6_EncounterOrder ==
    Done =>
       /\ Len(result) = Len(Entries)
       /\ \A k \in 1..Len(Entries) :
             /\ result[k].cls = Entries[k].annotation.name
             /\ result[k].name = DeclaredName(Entries[k].declaration)
             /\ result[k].isMethod = (Entries[k].declaration.kind = "MethodDeclaration")

C6_Witness ==
    /\ Done
    /\ Len(result) = 5
    /\ result[1].name = "run1"
    /\ result[2].name = "a" /\ result[2].cls = "UnsupportedAppUsage"
    /\ result[3].name = "a" /\ result[3].cls = "RequiresPermission"
    /\ result[4].cls = "UnsupportedAppUsage"

\* payloads that are neither a single qualified constant nor a list of named
\* elements holding qualified constants
IsMalformed(e) ==
    \/ IsPermissionEntry(e) /\ e.annotation.element \in MalformedPermission
    \/ IsUsageEntry(e) /\ e.annotation.element \in MalformedUsage

\* C7: a malformed payload raises no error; a record is still returned for it
\* and the scan goes on to its end.
C7_MalformedNotFatal ==
    (\E k \in 1..Len(Entries) : IsMalformed(Entries[k]))
       => /\ status # "raise"
          /\ Done => Len(result) = Len(Entries)

\* C8: a visited call of a recognised enforcement name (it has printed
\* ENFORCING) does not halt the scan, and the list handed to the caller then
\* carries a distinct NotImplemented entry.
C8_NotImplementedSurfaced ==
    Len(stdout) > 0
       => /\ status # "quit"
          /\ Done => \E k \in 1..Len(result) : result[k].cls = "NotImplemented"

\* C9 as stated: every permission record of the returned list has a non-empty
\* permissions sequence.
C9_PermissionsNeverEmpty ==
    Done =>
       \A k \in 1..Len(result) :
          result[k].cls = "RequiresPermission" => Len(result[k].permissions) > 0

\* the number of constants a permission payload lists
RECURSIVE CountIn(_)
CountIn(pairs) ==
    IF Len(pairs) = 0 THEN 0 ELSE Len(pairs[1].value.values) + CountIn(Tail(pairs))
ListedCount(element) ==
    IF element.shape = "single" THEN 1 ELSE CountIn(element.pairs)

\* C9 amended: every permission marker of a scan that returns has its record,
\* and the record's permissions are empty exactly when the payload is absent
\* or lists no constant.
C9_EmptyIffNothingListed ==
    Done =>
       \A k \in 1..Len(Entries) :
          IsPermissionEntry(Entries[k])
             => /\ k <= Len(result)
                /\ result[k].cls = "RequiresPermission"
                /\ (Len(result[k].permissions) = 0)
                      <=> (ListedCount(Entries[k].annotation.element) = 0)

C9_Witness ==
    /\ Done
    /\ unit = Camera(takePhoto(<<Permission(NoElement)>>))
    /\ Len(result) = 1
    /\ result[1].cls = "RequiresPermission"
    /\ result[1].permissions = <<>>

\* the note the Documentation Miner is to give
ExpectedNote(documentation) ==
    LET text == documentation.text
        at == {k \in 1..Len(text) : k + Len(Tag) - 1 <= Len(text)
                                     /\ \A j \in 1..Len(Tag) : text[k + j - 1] = Tag[j]}
    IN IF ~documentation.present \/ at = {} THEN ""
       ELSE deprecation_doc_text(text, (CHOOSE k \in at : \A j \in at : k <= j) - 1)

\* C10: deprecationNote is the cleaned text from the first occurrence of the
\* tag, wherever the tag occurs, and empty when there is no tag or no
\* documentation; no documentation text raises.
C10_NoteFromFirstTag ==
    /\ Done =>
          \A k \in 1..Len(Entries) :
             (IsUsageEntry(Entries[k]) /\ k <= Len(result))
                => result[k].deprecationNote
                      = ExpectedNote(Entries[k].declaration.documentation)
    /\ (Len(Entries) = 1 /\ IsUsageEntry(Entries[1])
            /\ Entries[1].annotation.element
                  = ListElement(<<ElementValuePair("maxTargetSdk", SDK_P)>>))
          => status \in {"running", "done"}

====
